---- MODULE Spec2Model ----
(***************************************************************************)
(* Call-tree reconstruction of a transaction's internal calls              *)
(* (rpc/api/internal_calls_test.go, buildCallStack) modelled as a state    *)
(* machine: one step per loop iteration of the builder, the nodes it       *)
(* allocates kept in an arena (heap) and pointers modelled as arena        *)
(* indices.  Node i of the arena is the node allocated for CallEvent i.    *)
(***************************************************************************)
EXTENDS Integers, Sequences, FiniteSets, TLC

\* ------------------------------------------------------------------ bounds
MaxCalls == 5
MaxDepth == 2
MaxReturns == 6
MaxRuns == 2
MaxCallers == 2
MaxGetStats == 1
MaxSamples == 1
MaxEthCalls == 1

\* --------------------------------------------------------------- constants
\* nil *CallStackNode
NoNode == 0

ErrNone == "none"
\* panic(fmt.Errorf("lastNode.depth:%d, call.Depth:%d", ...))
ErrDepth == "lastNode.depth, call.Depth"
\* Go runtime panic: index out of range on tx.InternalTxReturns[0]
ErrIndexReturns == "index out of range: InternalTxReturns"
\* Go runtime panic: index out of range on nodes[len(nodes)-1] / nodes[0]
ErrIndexNodes == "index out of range: nodes"

VARIABLES
    calls,         \* tx.InternalTxCalls
    kinds,         \* call-kind tag of each CallEvent (engine supplied)
    txReturns,     \* tx.InternalTxReturns (the builder re-slices it)
    entryReturns,  \* tx.InternalTxReturns as it stood when this invocation began
    origReturns,   \* tx.InternalTxReturns as it stood before the first invocation
    heap,          \* arena of the CallStackNode values allocated by this invocation
    nodes,         \* the open-call stack: []*CallStackNode
    idx,           \* position of the range loop over tx.InternalTxCalls (1-based)
    newNode,       \* newNode of the current iteration
    lastNode,      \* lastNode of the current iteration
    i,             \* counter of the pop loop
    n,             \* bound of the pop loop
    node0,         \* node0 := nodes[0]
    result,        \* the returned *CallStackNode
    pc,            \* "loop" | "pop" | "drain" | "done" | "panic" | "labeled"
    err,           \* the panic value, ErrNone while running
    run,           \* number of the invocation on this tx
    prevTree,      \* what the previous invocation on this tx returned
    callPaths,     \* callPath of every node, once labeled
    callGas,       \* gas available at entry of each CallEvent (engine supplied)
    internalTransactions,  \* the flattened receipt field, once projected
    lastUpdateTime,  \* debugAPI.lastUpdateTime
    stats,         \* debugAPI.stats
    numCall,       \* ethAPI.numCall
    clock,         \* time.Now().Unix()
    caller,        \* per GetStats caller: control position and locals
    snapshots,     \* the values api.stats had while no updateStats was running
    casLog         \* every CompareAndSwap executed so far: who, on what, outcome

receiptVars == <<kinds, callGas, callPaths, internalTransactions>>

statsVars == <<lastUpdateTime, stats, numCall, clock, caller, snapshots,
               casLog>>

builderVars == <<calls, txReturns, entryReturns, origReturns, heap, nodes, idx,
                 newNode, lastNode, i, n, node0, result, pc, err, run, prevTree>>

vars == <<calls, txReturns, entryReturns, origReturns, heap, nodes, idx,
          newNode, lastNode, i, n, node0, result, pc, err, run, prevTree,
          receiptVars, statsVars>>

\* ------------------------------------------------------------------ inputs
\* A CallEvent at depth d: the contract at level d calls the one at level d+1;
\* the input payload is tagged with the event's position.
MkCall(k, d) ==
    [Depth |-> d, Sender |-> d, Destination |-> d + 1, Input |-> <<k>>]

CallEvents(ds) == [k \in 1..Len(ds) |-> MkCall(k, ds[k])]

DepthSeqs == UNION {[1..len -> 0..MaxDepth] : len \in 0..MaxCalls}

\* A queue of len ReturnEvents; the k-th has its own output payload and gas,
\* and fails (status 1) on odd positions when f = 1.
ReturnQueue(len, f) ==
    [k \in 1..len |->
        [Output |-> <<k>>, StatusCode |-> (k * f) % 2, GasLeft |-> 1000 - 10 * k]]

ReturnQueues == {ReturnQueue(len, f) : len \in 0..MaxReturns, f \in {0, 1}}

\* TestInternalTxCalls: contract1.call2 => 2 x contract2.call3 => 2 x contract3.callMe
ScenarioDepths == <<0, 1, 2, 2, 1, 2, 2>>

ScenarioGasLeft == <<879854, 876640, 890032, 866805, 863291, 876471, 890031>>

ScenarioReturns ==
    [k \in 1..Len(ScenarioGasLeft) |->
        [Output |-> <<k>>, StatusCode |-> 0, GasLeft |-> ScenarioGasLeft[k]]]

Depths(cs) == [k \in 1..Len(cs) |-> cs[k].Depth]

\* first depth 0, every later depth between 1 and the previous depth + 1
DepthsWellFormed(cs) ==
    /\ Len(cs) >= 1
    /\ cs[1].Depth = 0
    /\ \A k \in 2..Len(cs) :
          /\ cs[k].Depth >= 1
          /\ cs[k].Depth <= cs[k - 1].Depth + 1

WellFormed(cs, rs) ==
    /\ DepthsWellFormed(cs)
    /\ Len(rs) = Len(cs)

\* the call kinds the path labeler tells apart
Kinds == {"CALL", "STATICCALL"}

\* TestGetTransactionReceipt: the second callMe of each pair is read-only
ScenarioKinds ==
    <<"CALL", "CALL", "CALL", "STATICCALL", "CALL", "CALL", "STATICCALL">>

\* TestGetTransactionReceipt: the "gas" of the seven records (0xeef6c, 0xe571e,
\* 0xdc147, 0xd62ad, 0xd8c25, 0xd434e, 0xd2e88), per CallEvent
ScenarioGas == <<978796, 939806, 901447, 877229, 887845, 869198, 863880>>

\* entry gas of the k-th of len CallEvents when the transaction starts with g
GasSchedule(len, g) == [k \in 1..len |-> g - 100 * k]

GasStarts == {2000, 3000}

\* ----------------------------------------------------------------- helpers
Top(s) == s[Len(s)]

Pop(s) == SubSeq(s, 1, Len(s) - 1)

\* newNode := &CallStackNode{depth, From, To, Input}; the rest zero-valued
NewCallStackNode(call) ==
    [depth |-> call.Depth, From |-> call.Sender, To |-> call.Destination,
     Input |-> call.Input, Output |-> <<>>, StatusCode |-> 0, GasLeft |-> 0,
     Calls |-> <<>>]

\* variant: the new node is put in front of its siblings
AppendCallMut(h, parent, child) ==
    [h EXCEPT ![parent].Calls = <<child>> \o @]

\* variant: the new node is always hung under the first node
AppendCallRootMut(h, parent, child) ==
    [h EXCEPT ![1].Calls = Append(@, child)]

\* variant: the new node replaces its siblings
AppendCallDropMut(h, parent, child) ==
    [h EXCEPT ![parent].Calls = <<child>>]

\* lastNode.Calls = append(lastNode.Calls, newNode)
AppendCall(h, parent, child) ==
    [h EXCEPT ![parent].Calls = Append(@, child)]

\* variant: GasLeft is not copied
ResolveMut(h, id, ret) ==
    [h EXCEPT ![id].Output = ret.Output, ![id].StatusCode = ret.StatusCode]

\* node.Output = ret.Output; node.GasLeft = ret.GasLeft; node.StatusCode = ret.StatusCode
Resolve(h, id, ret) ==
    [h EXCEPT ![id].Output = ret.Output,
              ![id].GasLeft = ret.GasLeft,
              ![id].StatusCode = ret.StatusCode]

\* if call.Depth == lastNode.depth+1
IsNewCall(callDepth, lastDepth) == callDepth = lastDepth + 1

\* variant: a plain else branch, which also takes the deeper events
IsLastCallsReturnMut(callDepth, lastDepth) == callDepth /= lastDepth + 1

\* if call.Depth <= lastNode.depth
IsLastCallsReturn(callDepth, lastDepth) == callDepth <= lastDepth

\* variant: the pop loop runs one time less
PopBoundMut(callDepth, lastDepth) == lastDepth - callDepth - 1

\* variant: the pop loop runs one time more
PopBoundDeepMut(callDepth, lastDepth) == lastDepth - callDepth + 1

\* n := lastNode.depth - call.Depth
PopBound(callDepth, lastDepth) == lastDepth - callDepth

\* variant: the drain stops one node early
DrainMoreMut(s) == Len(s) > 1

\* for len(nodes) > 0
DrainMore(s) == Len(s) > 0

\* the panic at the end of the loop body is reached when neither branch applies
DepthSkips(callDepth, lastDepth) ==
    /\ ~IsNewCall(callDepth, lastDepth)
    /\ ~IsLastCallsReturn(callDepth, lastDepth)

\* --------------------------------------------------------------- GetStats
\* StatusUpdateInterval = 60 // seconds
StatusUpdateInterval == 60

Callers == 1..MaxCallers

\* the zero value of Stats
ZeroStats ==
    [NumGoroutine |-> 0, NumGC |-> 0, MemAllocMB |-> 0, MemSysMB |-> 0,
     OsMemTotalMB |-> 0, OsMemUsedMB |-> 0, OsMemCachedMB |-> 0,
     OsMemFreeMB |-> 0, OsMemActiveMB |-> 0, OsMemInactiveMB |-> 0,
     OsMemSwapTotalMB |-> 0, OsMemSwapUsedMB |-> 0, OsMemSwapFreeMB |-> 0,
     NumEthCall |-> 0]

\* what a copy of api.stats that begins now may read: nothing but the current
\* value of every field
Reading(st) == [f \in DOMAIN st |-> {st[f]}]

\* a caller that is not inside GetStats.  at and k are its position (k counts
\* the assignments inside a group of updateStats); now, lastUpdateTime,
\* swapped (what CompareAndSwap returned), memStats, osMemStats, osErr and
\* numCall (the value loaded from ethAPI.numCall) are its locals; ret is the
\* copy of api.stats it is making (per field, the values the copy may have
\* read); returned is what its last call returned and
\* calls the number of calls it has made
IdleCaller ==
    [at |-> "idle", k |-> 0, now |-> 0, lastUpdateTime |-> 0,
     swapped |-> FALSE, memStats |-> 0, osMemStats |-> 0, osErr |-> FALSE,
     numCall |-> 0, ret |-> Reading(ZeroStats), returned |-> ZeroStats,
     calls |-> 0]

\* variant: an unconditional store in place of the compare-and-swap
CasSucceedsMut(current, old) == TRUE

\* atomic.CompareAndSwapInt64 swaps when the word still holds the old value
CasSucceeds(current, old) == current = old

\* func toMB(n uint64) uint64 { return n / 1024 / 1024 }
toMB(b) == (b \div 1024) \div 1024

\* variant: the update is due from the boundary on
UpdateDueMut(now, last) == now >= last + StatusUpdateInterval

\* if now > lastUpdateTime+StatusUpdateInterval
UpdateDue(now, last) == now > last + StatusUpdateInterval

\* what the runtime and the operating system report at some moment
Samples == 1..MaxSamples

\* runtime.NumGoroutine() and runtime.ReadMemStats: counts, and sizes in bytes
RuntimeSample(s) ==
    [NumGoroutine |-> 10 * s, NumGC |-> s,
     Alloc |-> s * 3145728 + 524288, Sys |-> s * 5242880 + 1048575]

\* memory.Get(): sizes in bytes
OsSample(s) ==
    [Total |-> 2000000000, Used |-> s * 104857600 + 1023,
     Cached |-> s * 10485760, Free |-> 2000000000 - s * 104857600,
     Active |-> s * 20971520 + 1, Inactive |-> s * 2097152,
     SwapTotal |-> 1073741824, SwapUsed |-> s * 1048576 - 1,
     SwapFree |-> 1073741824 - s * 1048576]

\* seconds that may have passed since the clock was last read: the longest
\* time that is still within the interval, and the shortest that is not
Elapsed == {StatusUpdateInterval, StatusUpdateInterval + 1}

\* a Unix time at which the node is running
StartTime == 1700000000

\* the fields updateStats assigns before memory.Get(), in program order
RuntimeFields == <<"NumGoroutine", "NumGC", "MemAllocMB", "MemSysMB">>

\* the right-hand side of the k-th of these assignments, s being what the
\* runtime reported
RuntimeStat(k, s) ==
    CASE k = 1 -> RuntimeSample(s).NumGoroutine
      [] k = 2 -> RuntimeSample(s).NumGC
      [] k = 3 -> toMB(RuntimeSample(s).Alloc)
      [] k = 4 -> toMB(RuntimeSample(s).Sys)

\* the fields updateStats assigns under err == nil, in program order
OsFieldOrder ==
    <<"OsMemTotalMB", "OsMemUsedMB", "OsMemCachedMB", "OsMemFreeMB",
      "OsMemActiveMB", "OsMemInactiveMB", "OsMemSwapTotalMB",
      "OsMemSwapUsedMB", "OsMemSwapFreeMB">>

\* the fields of osMemStats they are computed from
OsSampleOrder ==
    <<"Total", "Used", "Cached", "Free", "Active", "Inactive", "SwapTotal",
      "SwapUsed", "SwapFree">>

\* the right-hand side of the k-th of these assignments
OsStat(k, s) == toMB(OsSample(s)[OsSampleOrder[k]])

\* variant: the OsMem fields are assigned whatever memory.Get() returned
SkipsOsStatsMut(failed) == FALSE

\* if err == nil { ... } is skipped when memory.Get() failed
SkipsOsStats(failed) == failed

\* the callers that are in the middle of the struct copy of return api.stats
Copying == {u \in Callers : caller[u].at = "copying"}

\* the callers after v was stored in field f: a copy in progress may read the
\* field before or after the store
Observe(f, v) ==
    [u \in Callers |->
        IF u \in Copying
        THEN [caller[u] EXCEPT !.ret = [@ EXCEPT ![f] = @ \cup {v}]]
        ELSE caller[u]]

\* the Stats values a copy may deliver: any choice, field by field, among
\* the values read
Copies(reading) ==
    {[NumGoroutine |-> a1, NumGC |-> a2, MemAllocMB |-> a3, MemSysMB |-> a4,
      OsMemTotalMB |-> b1, OsMemUsedMB |-> b2, OsMemCachedMB |-> b3,
      OsMemFreeMB |-> b4, OsMemActiveMB |-> b5, OsMemInactiveMB |-> b6,
      OsMemSwapTotalMB |-> b7, OsMemSwapUsedMB |-> b8, OsMemSwapFreeMB |-> b9,
      NumEthCall |-> c] :
        a1 \in reading.NumGoroutine, a2 \in reading.NumGC,
        a3 \in reading.MemAllocMB, a4 \in reading.MemSysMB,
        b1 \in reading.OsMemTotalMB, b2 \in reading.OsMemUsedMB,
        b3 \in reading.OsMemCachedMB, b4 \in reading.OsMemFreeMB,
        b5 \in reading.OsMemActiveMB, b6 \in reading.OsMemInactiveMB,
        b7 \in reading.OsMemSwapTotalMB, b8 \in reading.OsMemSwapUsedMB,
        b9 \in reading.OsMemSwapFreeMB, c \in reading.NumEthCall}

\* newDebugAPI: lastUpdateTime and stats zero-valued, nobody calling
InitStatsIdle ==
    /\ lastUpdateTime = 0
    /\ stats = ZeroStats
    /\ numCall = 0
    /\ clock = 0
    /\ caller = [t \in Callers |-> IdleCaller]
    /\ snapshots = {ZeroStats}
    /\ casLog = {}

\* ------------------------------------------------------------------- Init
InitBuilder ==
    /\ heap = <<>>
    /\ nodes = <<>>
    /\ idx = 1
    /\ newNode = NoNode
    /\ lastNode = NoNode
    /\ i = 0
    /\ n = 0
    /\ node0 = NoNode
    /\ result = NoNode
    /\ pc = "loop"
    /\ err = ErrNone
    /\ run = 1
    /\ prevTree = [root |-> NoNode, heap |-> <<>>]
    /\ callPaths = <<>>
    /\ internalTransactions = <<>>

Init ==
    /\ \E ds \in DepthSeqs \cup {ScenarioDepths} :
          /\ calls = CallEvents(ds)
          /\ kinds = [k \in 1..Len(ds) |-> "CALL"]
          /\ callGas = [k \in 1..Len(ds) |-> 0]
    /\ \E q \in ReturnQueues \cup {ScenarioReturns} :
          /\ txReturns = q
          /\ entryReturns = q
          /\ origReturns = q
    /\ InitBuilder
    /\ InitStatsIdle

\* A receipt lookup: a well-formed trace with its call kinds and as many
\* ReturnEvents as CallEvents.
InitReceipt ==
    /\ \E ds \in DepthSeqs \cup {ScenarioDepths} :
          /\ DepthsWellFormed(CallEvents(ds))
          /\ calls = CallEvents(ds)
          /\ \E ks \in [1..Len(ds) -> Kinds] : kinds = ks
          /\ \E q \in ReturnQueues \cup {ScenarioReturns} :
                /\ Len(q) = Len(ds)
                /\ txReturns = q
                /\ entryReturns = q
                /\ origReturns = q
                /\ \E g \in GasStarts :
                      callGas = IF q = ScenarioReturns THEN ScenarioGas
                                ELSE GasSchedule(Len(ds), g)
    /\ InitBuilder
    /\ InitStatsIdle

\* ---------------------------------------------------------- path labeler
DecimalDigits == <<"0", "1", "2", "3", "4", "5", "6", "7", "8", "9">>

RECURSIVE Itoa(_)
\* decimal rendering of a non-negative ordinal
Itoa(v) ==
    IF v < 10 THEN DecimalDigits[v + 1]
    ELSE Itoa(v \div 10) \o DecimalDigits[(v % 10) + 1]

RECURSIVE ChainSuffix(_)
\* "_o1_o2_..." for the ordinal chain <<o1, o2, ...>>
ChainSuffix(chain) ==
    IF Len(chain) = 0 THEN ""
    ELSE "_" \o Itoa(Head(chain)) \o ChainSuffix(Tail(chain))

\* "call" for a mutating call, "staticcall" for a read-only call
KindPrefix(kind) == IF kind = "STATICCALL" THEN "staticcall" ELSE "call"

RECURSIVE LabelNode(_, _, _, _), LabelCalls(_, _, _, _, _)
\* pre-order walk: the node's label, then the labels of its Calls; the root
\* (chain <<0>>) is always labeled as a mutating call
LabelNode(h, ks, id, chain) ==
    <<[node |-> id,
       callPath |-> (IF Len(chain) = 1 THEN "call" ELSE KindPrefix(ks[id]))
                        \o ChainSuffix(chain)]>>
        \o LabelCalls(h, ks, h[id].Calls, chain, 0)

LabelCalls(h, ks, cs, chain, ord) ==
    IF Len(cs) = 0 THEN <<>>
    ELSE LabelNode(h, ks, Head(cs), Append(chain, ord))
            \o LabelCalls(h, ks, Tail(cs), chain, ord + 1)

\* ------------------------------------------------------ receipt projector
HexDigits ==
    <<"0", "1", "2", "3", "4", "5", "6", "7", "8", "9",
      "a", "b", "c", "d", "e", "f">>

RECURSIVE HexNibbles(_)
\* hexadecimal digits of v without leading zeros, "" for 0
HexNibbles(v) ==
    IF v = 0 THEN ""
    ELSE HexNibbles(v \div 16) \o HexDigits[(v % 16) + 1]

\* an integer as 0x-prefixed hexadecimal, "0x0" for zero
HexUint(v) == IF v = 0 THEN "0x0" ELSE "0x" \o HexNibbles(v)

RECURSIVE HexPairs(_)
\* two hexadecimal digits per byte
HexPairs(bs) ==
    IF Len(bs) = 0 THEN ""
    ELSE HexDigits[(Head(bs) \div 16) + 1] \o HexDigits[(Head(bs) % 16) + 1]
            \o HexPairs(Tail(bs))

\* a byte string as 0x-prefixed hexadecimal
HexBytes(bs) == "0x" \o HexPairs(bs)

\* the record of one labeled node
CallRecord(node, path, gas) ==
    [callPath |-> path,
     from |-> HexBytes(<<node.From>>),
     to |-> HexBytes(<<node.To>>),
     gas |-> HexUint(gas),
     value |-> HexUint(0),
     input |-> HexBytes(node.Input),
     status |-> HexUint(node.StatusCode),
     gasUsed |-> HexUint(gas - node.GasLeft),
     output |-> HexBytes(node.Output)]

\* one record per label, in the pre-order used for labeling
FlattenLabels(h, labels, gasOf) ==
    [k \in 1..Len(labels) |->
        CallRecord(h[labels[k].node], labels[k].callPath, gasOf[labels[k].node])]

\* ---------------------------------------------------------------- actions
Panic(e) ==
    /\ pc' = "panic"
    /\ err' = e

\* first call: nodes = append(nodes, newNode)
FirstCall ==
    /\ pc = "loop"
    /\ idx <= Len(calls)
    /\ Len(nodes) = 0
    /\ heap' = Append(heap, NewCallStackNode(calls[idx]))
    /\ newNode' = Len(heap) + 1
    /\ nodes' = Append(nodes, Len(heap) + 1)
    /\ idx' = idx + 1
    /\ UNCHANGED <<calls, txReturns, entryReturns, origReturns, lastNode,
                   i, n, node0, result, pc, err, run, prevTree, receiptVars, statsVars>>

\* new call: the event opens a call directly inside the top of the stack
NewCall ==
    /\ pc = "loop"
    /\ idx <= Len(calls)
    /\ Len(nodes) > 0
    /\ IsNewCall(calls[idx].Depth, heap[Top(nodes)].depth)
    /\ heap' = AppendCall(Append(heap, NewCallStackNode(calls[idx])),
                          Top(nodes), Len(heap) + 1)
    /\ newNode' = Len(heap) + 1
    /\ lastNode' = Top(nodes)
    /\ nodes' = Append(nodes, Len(heap) + 1)
    /\ idx' = idx + 1
    /\ UNCHANGED <<calls, txReturns, entryReturns, origReturns,
                   i, n, node0, result, pc, err, run, prevTree, receiptVars, statsVars>>

\* last calls return: enter the pop loop with i = 0
BeginReturn ==
    /\ pc = "loop"
    /\ idx <= Len(calls)
    /\ Len(nodes) > 0
    /\ ~IsNewCall(calls[idx].Depth, heap[Top(nodes)].depth)
    /\ IsLastCallsReturn(calls[idx].Depth, heap[Top(nodes)].depth)
    /\ heap' = Append(heap, NewCallStackNode(calls[idx]))
    /\ newNode' = Len(heap) + 1
    /\ lastNode' = Top(nodes)
    /\ n' = PopBound(calls[idx].Depth, heap[Top(nodes)].depth)
    /\ i' = 0
    /\ pc' = "pop"
    /\ UNCHANGED <<calls, txReturns, entryReturns, origReturns, nodes,
                   idx, node0, result, err, run, prevTree, receiptVars, statsVars>>

\* one iteration of the pop loop
PopStep ==
    /\ pc = "pop"
    /\ i <= n
    /\ IF Len(txReturns) = 0
       THEN /\ Panic(ErrIndexReturns)
            /\ UNCHANGED <<txReturns, heap, nodes, lastNode, i>>
       ELSE /\ txReturns' = Tail(txReturns)
            /\ heap' = Resolve(heap, lastNode, Head(txReturns))
            /\ nodes' = Pop(nodes)
            /\ IF Len(Pop(nodes)) = 0
               THEN /\ Panic(ErrIndexNodes)
                    /\ UNCHANGED <<lastNode, i>>
               ELSE /\ lastNode' = Top(Pop(nodes))
                    /\ i' = i + 1
                    /\ UNCHANGED <<pc, err>>
    /\ UNCHANGED <<calls, entryReturns, origReturns, idx, newNode, n,
                   node0, result, run, prevTree, receiptVars, statsVars>>

\* after the pop loop: attach the new node under the node now on top
AttachAfterPop ==
    /\ pc = "pop"
    /\ i > n
    /\ heap' = AppendCall(heap, lastNode, newNode)
    /\ nodes' = Append(nodes, newNode)
    /\ idx' = idx + 1
    /\ pc' = "loop"
    /\ UNCHANGED <<calls, txReturns, entryReturns, origReturns, newNode,
                   lastNode, i, n, node0, result, err, run, prevTree, receiptVars, statsVars>>

\* panic(fmt.Errorf("lastNode.depth:%d, call.Depth:%d", ...))
DepthPanic ==
    /\ pc = "loop"
    /\ idx <= Len(calls)
    /\ Len(nodes) > 0
    /\ DepthSkips(calls[idx].Depth, heap[Top(nodes)].depth)
    /\ heap' = Append(heap, NewCallStackNode(calls[idx]))
    /\ newNode' = Len(heap) + 1
    /\ lastNode' = Top(nodes)
    /\ Panic(ErrDepth)
    /\ UNCHANGED <<calls, txReturns, entryReturns, origReturns, nodes,
                   idx, i, n, node0, result, run, prevTree, receiptVars, statsVars>>

\* node0 := nodes[0]
StartDrain ==
    /\ pc = "loop"
    /\ idx > Len(calls)
    /\ IF Len(nodes) = 0
       THEN /\ Panic(ErrIndexNodes)
            /\ UNCHANGED node0
       ELSE /\ node0' = nodes[1]
            /\ pc' = "drain"
            /\ UNCHANGED err
    /\ UNCHANGED <<calls, txReturns, entryReturns, origReturns, heap,
                   nodes, idx, newNode, lastNode, i, n, result, run, prevTree,
                   receiptVars, statsVars>>

\* one iteration of the final drain loop
DrainStep ==
    /\ pc = "drain"
    /\ DrainMore(nodes)
    /\ nodes' = Pop(nodes)
    /\ IF Len(txReturns) = 0
       THEN /\ Panic(ErrIndexReturns)
            /\ UNCHANGED <<txReturns, heap>>
       ELSE /\ txReturns' = Tail(txReturns)
            /\ heap' = Resolve(heap, Top(nodes), Head(txReturns))
            /\ UNCHANGED <<pc, err>>
    /\ UNCHANGED <<calls, entryReturns, origReturns, idx, newNode,
                   lastNode, i, n, node0, result, run, prevTree, receiptVars, statsVars>>

\* return node0
Return ==
    /\ pc = "drain"
    /\ ~DrainMore(nodes)
    /\ result' = node0
    /\ pc' = "done"
    /\ UNCHANGED <<calls, txReturns, entryReturns, origReturns, heap,
                   nodes, idx, newNode, lastNode, i, n, node0, err, run,
                   prevTree, receiptVars, statsVars>>

\* buildCallStack(tx) is invoked again on the same *motypes.Transaction
Rebuild ==
    /\ pc = "done"
    /\ run < MaxRuns
    /\ prevTree' = [root |-> result, heap |-> heap]
    /\ entryReturns' = txReturns
    /\ run' = run + 1
    /\ heap' = <<>>
    /\ nodes' = <<>>
    /\ idx' = 1
    /\ newNode' = NoNode
    /\ lastNode' = NoNode
    /\ i' = 0
    /\ n' = 0
    /\ node0' = NoNode
    /\ result' = NoNode
    /\ pc' = "loop"
    /\ UNCHANGED <<calls, txReturns, origReturns, err, receiptVars, statsVars>>

\* the path labeler walks the returned tree
LabelTree ==
    /\ pc = "done"
    /\ callPaths' = LabelNode(heap, kinds, result, <<0>>)
    /\ pc' = "labeled"
    /\ UNCHANGED <<calls, kinds, callGas, internalTransactions, txReturns,
                   entryReturns, origReturns, heap, nodes, idx, newNode,
                   lastNode, i, n, node0, result, err, run, prevTree, statsVars>>

\* the receipt projector flattens the labeled tree
FlattenTree ==
    /\ pc = "labeled"
    /\ internalTransactions' = FlattenLabels(heap, callPaths, callGas)
    /\ pc' = "flattened"
    /\ UNCHANGED <<calls, kinds, callGas, callPaths, txReturns, entryReturns,
                   origReturns, heap, nodes, idx, newNode, lastNode, i, n,
                   node0, result, err, run, prevTree, statsVars>>

Next ==
    \/ FirstCall
    \/ NewCall
    \/ BeginReturn
    \/ PopStep
    \/ AttachAfterPop
    \/ DepthPanic
    \/ StartDrain
    \/ DrainStep
    \/ Return
    \/ Rebuild

Spec == Init /\ [][Next]_vars

\* buildCallStack is a sequential function: once called it keeps running until
\* it returns or panics
FairSpec == Spec /\ WF_vars(Next)

\* building, then labeling, the tree of a receipt lookup
NextReceipt ==
    \/ FirstCall
    \/ NewCall
    \/ BeginReturn
    \/ PopStep
    \/ AttachAfterPop
    \/ StartDrain
    \/ DrainStep
    \/ Return
    \/ LabelTree
    \/ FlattenTree

SpecReceipt == InitReceipt /\ [][NextReceipt]_vars

\* --------------------------------------------------- GetStats, step by step
\* A debug API in service: no transaction is being rebuilt.
InitStats ==
    /\ calls = <<>>
    /\ kinds = <<>>
    /\ callGas = <<>>
    /\ txReturns = <<>>
    /\ entryReturns = <<>>
    /\ origReturns = <<>>
    /\ InitBuilder
    /\ lastUpdateTime = 0
    /\ stats = ZeroStats
    /\ numCall = 0
    /\ clock = StartTime
    /\ caller = [t \in Callers |-> IdleCaller]
    /\ snapshots = {ZeroStats}
    /\ casLog = {}

\* now := time.Now().Unix()
GetStatsEnter(t) ==
    /\ caller[t].at = "idle"
    /\ caller[t].calls < MaxGetStats
    /\ \E d \in Elapsed :
          /\ clock' = clock + d
          /\ caller' = [caller EXCEPT ![t] =
                [@ EXCEPT !.at = "load", !.now = clock + d, !.calls = @ + 1]]
    /\ UNCHANGED <<lastUpdateTime, stats, numCall, snapshots, casLog, builderVars,
                   receiptVars>>

\* lastUpdateTime := atomic.LoadInt64(&api.lastUpdateTime), and the test on it
LoadLastUpdateTime(t) ==
    /\ caller[t].at = "load"
    /\ caller' = [caller EXCEPT ![t] =
          [@ EXCEPT !.lastUpdateTime = lastUpdateTime,
                    !.at = IF UpdateDue(caller[t].now, lastUpdateTime)
                           THEN "cas" ELSE "copy"]]
    /\ UNCHANGED <<lastUpdateTime, stats, numCall, clock, snapshots,
                   casLog, builderVars, receiptVars>>

\* atomic.CompareAndSwapInt64(&api.lastUpdateTime, lastUpdateTime, now); the
\* winner enters updateStats
CompareAndSwap(t) ==
    /\ caller[t].at = "cas"
    /\ LET won == CasSucceeds(lastUpdateTime, caller[t].lastUpdateTime) IN
       /\ lastUpdateTime' = IF won THEN caller[t].now ELSE lastUpdateTime
       /\ caller' = [caller EXCEPT ![t] =
             [@ EXCEPT !.swapped = won,
                       !.at = IF won THEN "readMemStats" ELSE "copy"]]
       /\ snapshots' = IF won THEN snapshots \cup {stats} ELSE snapshots
       /\ casLog' = casLog \cup
             {[by |-> t, call |-> caller[t].calls,
               old |-> caller[t].lastUpdateTime, new |-> caller[t].now,
               won |-> won]}
    /\ UNCHANGED <<stats, numCall, clock, builderVars, receiptVars>>

\* updateStats: memStats := runtime.MemStats{}; runtime.ReadMemStats(&memStats)
ReadMemStats(t) ==
    /\ caller[t].at = "readMemStats"
    /\ \E s \in Samples :
          caller' = [caller EXCEPT ![t] =
                [@ EXCEPT !.memStats = s, !.at = "runtime", !.k = 1]]
    /\ UNCHANGED <<lastUpdateTime, stats, numCall, clock, snapshots, casLog,
                   builderVars, receiptVars>>

\* updateStats: one of the assignments to NumGoroutine, NumGC, MemAllocMB,
\* MemSysMB; a plain store, which a caller that is copying api.stats may or
\* may not read
StoreRuntimeStat(t) ==
    /\ caller[t].at = "runtime"
    /\ LET k == caller[t].k
           f == RuntimeFields[k]
       IN \E s \in IF k = 1 THEN Samples ELSE {caller[t].memStats} :
             /\ stats' = [stats EXCEPT ![f] = RuntimeStat(k, s)]
             /\ caller' = [Observe(f, RuntimeStat(k, s)) EXCEPT ![t] =
                   [@ EXCEPT !.k = IF k < Len(RuntimeFields) THEN k + 1 ELSE 0,
                             !.at = IF k < Len(RuntimeFields)
                                    THEN "runtime" ELSE "memoryGet"]]
    /\ UNCHANGED <<lastUpdateTime, numCall, clock, snapshots, casLog,
                   builderVars, receiptVars>>

\* updateStats: osMemStats, err := memory.Get(); if err == nil
MemoryGet(t) ==
    /\ caller[t].at = "memoryGet"
    /\ \E failed \in BOOLEAN, s \in Samples :
          caller' = [caller EXCEPT ![t] =
                [@ EXCEPT !.osErr = failed,
                          !.osMemStats = IF failed THEN 0 ELSE s,
                          !.k = IF SkipsOsStats(failed) THEN 0 ELSE 1,
                          !.at = IF SkipsOsStats(failed)
                                 THEN "loadNumCall" ELSE "os"]]
    /\ UNCHANGED <<lastUpdateTime, stats, numCall, clock, snapshots, casLog,
                   builderVars, receiptVars>>

\* updateStats: one of the nine assignments to the OsMem fields
StoreOsStat(t) ==
    /\ caller[t].at = "os"
    /\ LET k == caller[t].k
           f == OsFieldOrder[k]
           v == OsStat(k, caller[t].osMemStats)
       IN    /\ stats' = [stats EXCEPT ![f] = v]
             /\ caller' = [Observe(f, v) EXCEPT ![t] =
                   [@ EXCEPT !.k = IF k < Len(OsFieldOrder) THEN k + 1 ELSE 0,
                             !.at = IF k < Len(OsFieldOrder)
                                    THEN "os" ELSE "loadNumCall"]]
    /\ UNCHANGED <<lastUpdateTime, numCall, clock, snapshots, casLog,
                   builderVars, receiptVars>>

\* updateStats: atomic.LoadUint64(&api.ethAPI.numCall)
LoadNumCall(t) ==
    /\ caller[t].at = "loadNumCall"
    /\ caller' = [caller EXCEPT ![t] =
          [@ EXCEPT !.numCall = numCall, !.at = "storeNumEthCall"]]
    /\ UNCHANGED <<lastUpdateTime, stats, numCall, clock, snapshots, casLog,
                   builderVars, receiptVars>>

\* updateStats: api.stats.NumEthCall = the value loaded, and the return
StoreNumEthCall(t) ==
    /\ caller[t].at = "storeNumEthCall"
    /\ stats' = [stats EXCEPT !.NumEthCall = caller[t].numCall]
    /\ snapshots' = snapshots \cup {stats'}
    /\ caller' = [Observe("NumEthCall", caller[t].numCall) EXCEPT ![t] =
          [@ EXCEPT !.at = "copy"]]
    /\ UNCHANGED <<lastUpdateTime, numCall, clock, casLog, builderVars,
                   receiptVars>>

\* return api.stats: the struct copy begins.  It is a plain read of every
\* field, in no defined order, that lasts until the copy ends: each field is
\* read as it stands now or as a store made meanwhile leaves it, and ret
\* collects these values.
ReturnStatsBegin(t) ==
    /\ caller[t].at = "copy"
    /\ caller' = [caller EXCEPT ![t] =
          [@ EXCEPT !.ret = Reading(stats), !.at = "copying"]]
    /\ UNCHANGED <<lastUpdateTime, stats, numCall, clock, snapshots, casLog,
                   builderVars, receiptVars>>

\* return api.stats: the copy is complete and handed to the caller
ReturnStatsEnd(t) ==
    /\ caller[t].at = "copying"
    /\ \E copy \in Copies(caller[t].ret) :
          caller' = [caller EXCEPT ![t] =
                [IdleCaller EXCEPT !.returned = copy,
                                   !.calls = caller[t].calls]]
    /\ UNCHANGED <<lastUpdateTime, stats, numCall, clock, snapshots, casLog,
                   builderVars, receiptVars>>

\* an eth_call served meanwhile: atomic.AddUint64(&api.numCall, 1)
EthCall ==
    /\ numCall < MaxEthCalls
    /\ numCall' = numCall + 1
    /\ UNCHANGED <<lastUpdateTime, stats, clock, caller, snapshots,
                   casLog, builderVars, receiptVars>>

GetStats(t) ==
    \/ GetStatsEnter(t)
    \/ LoadLastUpdateTime(t)
    \/ CompareAndSwap(t)
    \/ ReadMemStats(t)
    \/ StoreRuntimeStat(t)
    \/ MemoryGet(t)
    \/ StoreOsStat(t)
    \/ LoadNumCall(t)
    \/ StoreNumEthCall(t)
    \/ ReturnStatsBegin(t)
    \/ ReturnStatsEnd(t)

NextStats ==
    \/ \E t \in Callers : GetStats(t)
    \/ EthCall

SpecStats == InitStats /\ [][NextStats]_vars

\* ------------------------------------------------------ tree observations
RECURSIVE PreOrder(_, _), PreOrderAll(_, _)
\* node first, then its Calls in list order
PreOrder(h, id) == <<id>> \o PreOrderAll(h, h[id].Calls)

PreOrderAll(h, cs) ==
    IF Len(cs) = 0 THEN <<>>
    ELSE PreOrder(h, Head(cs)) \o PreOrderAll(h, Tail(cs))

RECURSIVE PostOrder(_, _), PostOrderAll(_, _)
\* children first (in list order), then the node
PostOrder(h, id) == PostOrderAll(h, h[id].Calls) \o <<id>>

PostOrderAll(h, cs) ==
    IF Len(cs) = 0 THEN <<>>
    ELSE PostOrder(h, Head(cs)) \o PostOrderAll(h, Tail(cs))

\* the nodes that hold c in their Calls
Parents(h, c) ==
    {p \in 1..Len(h) : \E k \in 1..Len(h[p].Calls) : h[p].Calls[k] = c}

\* the latest earlier CallEvent one level above CallEvent k
Enclosing(cs, k) ==
    {j \in 1..(k - 1) :
        /\ cs[j].Depth = cs[k].Depth - 1
        /\ \A m \in (j + 1)..(k - 1) : cs[m].Depth /= cs[k].Depth - 1}

Finished == pc = "done" /\ WellFormed(calls, entryReturns)

\* GasLeft of the expected call stack of TestInternalTxCalls, node by node in
\* the order the JSON lists them (root, first child and its two calls, second
\* child and its two calls)
ScenarioTreeGasLeft ==
    <<890031, 890032, 879854, 876640, 876471, 866805, 863291>>

\* ------------------------------------------------------------------ claims

\* C1: for a well-formed trace the returned tree makes the node of CallEvent k
\* (k > 1) a child of the node of the latest earlier CallEvent one level above
\* it, every Calls list is in event order, and depths [0,1,2,2,1,2,2] give a
\* root with two children that have two children each.
C1_TreeShape ==
    Finished =>
        /\ \A k \in 1..Len(calls) :
              /\ heap[k].Input = calls[k].Input
              /\ heap[k].depth = calls[k].Depth
        /\ \A k \in 2..Len(calls) :
              /\ Cardinality(Enclosing(calls, k)) = 1
              /\ Parents(heap, k) = Enclosing(calls, k)
        /\ Parents(heap, result) = {}
        /\ \A p \in 1..Len(heap) :
              \A a, b \in 1..Len(heap[p].Calls) :
                  a < b => heap[p].Calls[a] < heap[p].Calls[b]
        /\ Depths(calls) = ScenarioDepths =>
              /\ result = 1
              /\ heap[1].Calls = <<2, 5>>
              /\ heap[2].Calls = <<3, 4>>
              /\ heap[5].Calls = <<6, 7>>
              /\ \A k \in {3, 4, 6, 7} : heap[k].Calls = <<>>

C1_Witness ==
    /\ Finished
    /\ Depths(calls) = ScenarioDepths
    /\ Len(heap[result].Calls) = 2

\* C2: for a well-formed trace the k-th ReturnEvent of the queue resolves the
\* k-th node in post-order of the returned tree (the k-th call to close), every
\* node gets one ReturnEvent and the queue is used up.
C2_ReturnsMatchCloseOrder ==
    Finished =>
        LET po == PostOrder(heap, result) IN
        /\ Len(po) = Len(entryReturns)
        /\ \A a, b \in 1..Len(po) : a /= b => po[a] /= po[b]
        /\ \A k \in 1..Len(po) :
              /\ heap[po[k]].Output = entryReturns[k].Output
              /\ heap[po[k]].StatusCode = entryReturns[k].StatusCode
              /\ heap[po[k]].GasLeft = entryReturns[k].GasLeft
        /\ Len(txReturns) = 0
        /\ entryReturns = ScenarioReturns =>
              [k \in 1..Len(heap) |-> heap[k].GasLeft] = ScenarioTreeGasLeft

C2_Witness ==
    /\ Finished
    /\ Len(calls) >= 3
    /\ heap[1].Output = entryReturns[Len(calls)].Output
    /\ heap[2].Output /= entryReturns[2].Output
    /\ \E k \in 1..Len(heap) : heap[k].StatusCode = 1

\* C3: for a well-formed trace the returned tree has exactly len(CallEvents)
\* nodes: one node per CallEvent, each reachable from the root exactly once.
C3_NodeCount ==
    Finished =>
        LET pre == PreOrder(heap, result) IN
        /\ Len(heap) = Len(calls)
        /\ Len(pre) = Len(calls)
        /\ {pre[k] : k \in 1..Len(pre)} = 1..Len(calls)

C3_Witness ==
    /\ Finished
    /\ Len(calls) = MaxCalls
    /\ \E p \in 1..Len(heap) : Len(heap[p].Calls) >= 2

\* C4: for a well-formed trace a pre-order walk of the returned tree visits the
\* nodes in the order of the CallEvents that created them; the root is the node
\* of the first CallEvent.
C4_PreOrderIsEventOrder ==
    Finished =>
        LET pre == PreOrder(heap, result) IN
        /\ result = 1
        /\ pre = [k \in 1..Len(calls) |-> k]
        /\ [k \in 1..Len(pre) |-> heap[pre[k]].Input]
              = [k \in 1..Len(calls) |-> calls[k].Input]

C4_Witness ==
    /\ Finished
    /\ Len(calls) >= 4
    /\ Len(heap[1].Calls) = 2
    /\ Len(heap[2].Calls) >= 1

\* C5: a CallEvent deeper than the top of the stack plus one aborts the build
\* with the depth panic at that event, in every invocation, and no tree is
\* returned once the build has panicked.
C5_DepthSkipAborts ==
    /\ [](pc = "panic" => result = NoNode)
    /\ [][(/\ pc = "loop"
           /\ idx <= Len(calls)
           /\ Len(nodes) > 0
           /\ calls[idx].Depth > heap[Top(nodes)].depth + 1)
          => (/\ pc' = "panic"
              /\ err' = ErrDepth
              /\ idx' = idx
              /\ result' = NoNode)]_vars

C5_Witness ==
    /\ pc = "panic"
    /\ err = ErrDepth
    /\ Depths(calls) = <<0, 2>>
    /\ idx = 2

\* C6: with fewer ReturnEvents than CallEvents the build never returns a tree;
\* when the depths are well formed it panics at the pop that finds the queue
\* empty.
C6_TooFewReturnsFail ==
    Len(entryReturns) < Len(calls) =>
        /\ pc /= "done"
        /\ result = NoNode
        /\ (pc = "panic" /\ DepthsWellFormed(calls)) =>
              /\ err = ErrIndexReturns
              /\ Len(txReturns) = 0

C6_Witness ==
    /\ Len(entryReturns) < Len(calls)
    /\ Len(entryReturns) > 0
    /\ DepthsWellFormed(calls)
    /\ pc = "panic"
    /\ err = ErrIndexReturns
    /\ idx <= Len(calls)

\* C7: with more ReturnEvents than CallEvents the build fails instead of
\* returning a tree.
C7_LeftoverReturnsFail ==
    Len(entryReturns) > Len(calls) => pc /= "done"

\* C8: with zero CallEvents and zero ReturnEvents the build completes without
\* a failure.
C8_EmptyTraceNoFailure ==
    (Len(calls) = 0 /\ Len(entryReturns) = 0) => pc /= "panic"

\* C9: the build leaves tx.InternalTxReturns as it found it, and a second
\* build from the same transaction returns the same tree as the first.
C9_PureOfInputs ==
    /\ txReturns = origReturns
    /\ (run >= 2 /\ pc \in {"done", "panic"}) =>
          /\ pc = "done"
          /\ [root |-> result, heap |-> heap] = prevTree

\* the callPath the labeler gave node id
PathOf(id) ==
    LET k == CHOOSE k \in 1..Len(callPaths) : callPaths[k].node = id
    IN callPaths[k].callPath

\* position of the first "_" of a path
FirstUnderscore(path) ==
    CHOOSE k \in 1..Len(path) :
        /\ SubSeq(path, k, k) = "_"
        /\ \A m \in 1..(k - 1) : SubSeq(path, m, m) /= "_"

\* the kind prefix of a path and the ordinal chain that follows it
PathKind(path) == SubSeq(path, 1, FirstUnderscore(path) - 1)

PathChain(path) == SubSeq(path, FirstUnderscore(path) + 1, Len(path))

\* C10: the root is labeled "call_0" whatever its kind; the child at ordinal a
\* of a parent with chain c is labeled <kind>_<c>_<a> with its own kind only;
\* the 2x2 fan-out with read-only second grandchildren is labeled call_0,
\* call_0_0, call_0_0_0, staticcall_0_0_1, call_0_1, call_0_1_0,
\* staticcall_0_1_1.
C10_PathLabels ==
    pc = "labeled" =>
        /\ Len(callPaths) = Len(calls)
        /\ PathOf(result) = "call_0"
        /\ \A p \in 1..Len(heap) :
              \A a \in 1..Len(heap[p].Calls) :
                  LET c == heap[p].Calls[a] IN
                  /\ PathKind(PathOf(c)) =
                        (IF kinds[c] = "STATICCALL" THEN "staticcall" ELSE "call")
                  /\ PathChain(PathOf(c)) =
                        PathChain(PathOf(p)) \o "_" \o ToString(a - 1)
        /\ (Depths(calls) = ScenarioDepths /\ kinds = ScenarioKinds) =>
              [k \in 1..Len(callPaths) |-> callPaths[k].callPath] =
                  <<"call_0", "call_0_0", "call_0_0_0", "staticcall_0_0_1",
                    "call_0_1", "call_0_1_0", "staticcall_0_1_1">>

C10_Witness ==
    /\ pc = "labeled"
    /\ Depths(calls) = ScenarioDepths
    /\ kinds = [ScenarioKinds EXCEPT ![1] = "STATICCALL"]
    /\ PathOf(result) = "call_0"
    /\ PathOf(4) = "staticcall_0_0_1"
    /\ PathOf(6) = "call_0_1_0"

\* ------------------------------------------------- reading the flat list
\* value of one hexadecimal digit
HexDigitValue(c) == CHOOSE v \in 0..15 : HexDigits[v + 1] = c

RECURSIVE HexDigitsValue(_, _)
HexDigitsValue(str, acc) ==
    IF Len(str) = 0 THEN acc
    ELSE HexDigitsValue(Tail(str), acc * 16 + HexDigitValue(Head(str)))

\* the number a 0x-prefixed hexadecimal string denotes
HexToInt(str) == HexDigitsValue(SubSeq(str, 3, Len(str)), 0)

RECURSIVE ParseOrdinals(_, _, _)
\* the ordinals of a chain such as "0_1_12": <<0, 1, 12>>
ParseOrdinals(str, cur, acc) ==
    IF Len(str) = 0 THEN Append(acc, cur)
    ELSE IF Head(str) = "_" THEN ParseOrdinals(Tail(str), 0, Append(acc, cur))
    ELSE ParseOrdinals(Tail(str),
                       cur * 10 + (CHOOSE v \in 0..9 : DecimalDigits[v + 1] = Head(str)),
                       acc)

\* ordinal chain of record k of the flat list
ChainOf(k) == ParseOrdinals(PathChain(internalTransactions[k].callPath), 0, <<>>)

\* the records whose chain is the chain of record k extended by one ordinal,
\* ordered by that ordinal
Regroup(k) ==
    LET kids == {c \in 1..Len(internalTransactions) :
                    /\ Len(ChainOf(c)) = Len(ChainOf(k)) + 1
                    /\ SubSeq(ChainOf(c), 1, Len(ChainOf(k))) = ChainOf(k)}
    IN [o \in 1..Cardinality(kids) |->
           CHOOSE c \in kids : ChainOf(c)[Len(ChainOf(c))] = o - 1]

\* position of node id in the post-order of the returned tree
CloseOrder(id) ==
    LET po == PostOrder(heap, result)
    IN CHOOSE k \in 1..Len(po) : po[k] = id

\* C11: the flat list has one record per node of the tree, in pre-order, which
\* is CallEvent order; record k carries from, to and input of CallEvent k.
C11_FlatListInEventOrder ==
    pc = "flattened" =>
        /\ Len(internalTransactions) = Len(PreOrder(heap, result))
        /\ Len(internalTransactions) = Len(calls)
        /\ [k \in 1..Len(callPaths) |-> callPaths[k].node] = PreOrder(heap, result)
        /\ \A k \in 1..Len(internalTransactions) :
              /\ internalTransactions[k].callPath = PathOf(PreOrder(heap, result)[k])
              /\ HexToInt(internalTransactions[k].from) = calls[k].Sender
              /\ HexToInt(internalTransactions[k].to) = calls[k].Destination
              /\ HexToInt(internalTransactions[k].input) = calls[k].Input[1]

C11_Witness ==
    /\ pc = "flattened"
    /\ Len(internalTransactions) = MaxCalls
    /\ internalTransactions[3].callPath = "staticcall_0_1"
    /\ internalTransactions[3].input = "0x03"
    /\ internalTransactions[4].from = "0x02"

\* C12: the ordinal chains of the flat records are pairwise distinct, every
\* non-root chain is its parent's chain plus one ordinal, and grouping the
\* records by chain prefix gives back the nesting and sibling order of the tree
\* (for the 2x2 fan-out: records 2 and 5 under 1, 3 and 4 under 2, 6 and 7
\* under 5).
C12_RegroupRoundTrip ==
    pc = "flattened" =>
        /\ \A a, b \in 1..Len(internalTransactions) :
              a /= b => ChainOf(a) /= ChainOf(b)
        /\ \A k \in 1..Len(internalTransactions) :
              /\ callPaths[k].node /= result =>
                    \E j \in 1..Len(internalTransactions) :
                        /\ callPaths[j].node \in Parents(heap, callPaths[k].node)
                        /\ Len(ChainOf(k)) = Len(ChainOf(j)) + 1
                        /\ SubSeq(ChainOf(k), 1, Len(ChainOf(j))) = ChainOf(j)
              /\ [o \in 1..Len(Regroup(k)) |-> callPaths[Regroup(k)[o]].node]
                    = heap[callPaths[k].node].Calls
        /\ Depths(calls) = ScenarioDepths =>
              /\ Regroup(1) = <<2, 5>>
              /\ Regroup(2) = <<3, 4>>
              /\ Regroup(5) = <<6, 7>>
              /\ \A k \in {3, 4, 6, 7} : Regroup(k) = <<>>

C12_Witness ==
    /\ pc = "flattened"
    /\ Depths(calls) = ScenarioDepths
    /\ ChainOf(7) = <<0, 1, 1>>
    /\ Regroup(5) = <<6, 7>>

\* the "gas" and "gasUsed" of the seven records of TestGetTransactionReceipt
ScenarioGasHex ==
    <<"0xeef6c", "0xe571e", "0xdc147", "0xd62ad", "0xd8c25", "0xd434e", "0xd2e88">>

ScenarioGasUsedHex ==
    <<"0x15abd", "0xc26e", "0x5459", "0x24d", "0x2c6e", "0x959", "0x24d">>

\* C13: gasUsed of every record is the record's entry gas minus the GasLeft of
\* the ReturnEvent the builder matched to that call (root of the test trace:
\* 0xeef6c - 890031 = 0x15abd).
C13_GasUsed ==
    pc = "flattened" =>
        /\ \A k \in 1..Len(internalTransactions) :
              /\ HexToInt(internalTransactions[k].gas) = callGas[callPaths[k].node]
              /\ HexToInt(internalTransactions[k].gasUsed) =
                    HexToInt(internalTransactions[k].gas)
                        - entryReturns[CloseOrder(callPaths[k].node)].GasLeft
        /\ entryReturns = ScenarioReturns =>
              /\ [k \in 1..Len(internalTransactions) |-> internalTransactions[k].gas]
                    = ScenarioGasHex
              /\ [k \in 1..Len(internalTransactions) |->
                    internalTransactions[k].gasUsed] = ScenarioGasUsedHex

C13_Witness ==
    /\ pc = "flattened"
    /\ entryReturns = ScenarioReturns
    /\ internalTransactions[1].gas = "0xeef6c"
    /\ internalTransactions[1].gasUsed = "0x15abd"
    /\ HexToInt(internalTransactions[1].gasUsed) = 978796 - 890031

\* ------------------------------------------------- builder, step by step
\* the event at idx is at or above the level of the top of the stack
ReturnCase ==
    /\ pc = "loop"
    /\ idx <= Len(calls)
    /\ Len(nodes) > 0
    /\ calls[idx].Depth <= heap[Top(nodes)].depth

\* the event at idx is one level below the top of the stack
NestedCase ==
    /\ pc = "loop"
    /\ idx <= Len(calls)
    /\ Len(nodes) > 0
    /\ calls[idx].Depth = heap[Top(nodes)].depth + 1

\* number of ReturnEvents this invocation has consumed
Consumed == Len(entryReturns) - Len(txReturns)

SameResolution(a, b) ==
    /\ a.Output = b.Output
    /\ a.StatusCode = b.StatusCode
    /\ a.GasLeft = b.GasLeft

Unresolved(node) ==
    /\ node.Output = <<>>
    /\ node.StatusCode = 0
    /\ node.GasLeft = 0

\* C14 (as stated): an event at depth <= top.depth starts a pop loop bounded by
\* top.depth - depth; every iteration pops one node and gives it the front
\* ReturnEvent; the loop always runs to its end, top.depth - depth + 1 pops,
\* and leaves a top of depth - 1 under which the new node is appended last,
\* and pushed: a pop loop once entered never aborts.
C14_AlwaysPopsThenAttaches ==
    /\ [][ReturnCase =>
            /\ pc' = "pop"
            /\ i' = 0
            /\ n' = heap[Top(nodes)].depth - calls[idx].Depth]_vars
    /\ [][pc = "pop" =>
            /\ pc' \in {"pop", "loop"}
            /\ pc' = "pop" =>
                  /\ nodes' = Pop(nodes)
                  /\ txReturns' = Tail(txReturns)
                  /\ i' = i + 1
            /\ pc' = "loop" =>
                  /\ i = n + 1
                  /\ heap[Top(nodes)].depth = calls[idx].Depth - 1
                  /\ heap'[Top(nodes)].Calls =
                        Append(heap[Top(nodes)].Calls, newNode)
                  /\ nodes' = Append(nodes, newNode)]_vars

\* C14 (amended): an event at depth <= top.depth starts a pop loop bounded by
\* top.depth - depth; every completed iteration pops one node and gives it the
\* front ReturnEvent. When the queue holds top.depth - depth + 1 ReturnEvents
\* and depth is below the root's, the loop is left after exactly
\* top.depth - depth + 1 pops with a top of depth - 1, under which the new node
\* is appended last, and pushed. Otherwise the build panics inside the loop: on
\* an exhausted queue before the pop (line 65), or on the stack the pop has
\* emptied (line 71), which happens exactly for an event at or above the
\* root's level; never more than top.depth - depth + 1 nodes are popped and the
\* new node is appended nowhere.
C14_PopThenAttach ==
    /\ [][ReturnCase =>
            /\ pc' = "pop"
            /\ i' = 0
            /\ n' = heap[Top(nodes)].depth - calls[idx].Depth
            /\ nodes' = nodes
            /\ txReturns' = txReturns]_vars
    /\ [][(pc = "pop" /\ pc' = "pop") =>
            /\ nodes' = Pop(nodes)
            /\ txReturns' = Tail(txReturns)
            /\ i' = i + 1
            /\ SameResolution(heap'[Top(nodes)], Head(txReturns))]_vars
    /\ [](pc = "pop" =>
            /\ i <= n + 1
            /\ n = heap[newNode - 1].depth - calls[idx].Depth)
    /\ [][(pc = "pop" /\ pc' = "loop") =>
            /\ i = heap[newNode - 1].depth - calls[idx].Depth + 1
            /\ calls[idx].Depth > heap[1].depth
            /\ heap[Top(nodes)].depth = calls[idx].Depth - 1
            /\ heap'[Top(nodes)].Calls = Append(heap[Top(nodes)].Calls, newNode)
            /\ heap'[newNode].depth = calls[idx].Depth
            /\ nodes' = Append(nodes, newNode)
            /\ txReturns' = txReturns
            /\ idx' = idx + 1]_vars
    /\ [][(pc = "pop" /\ pc' = "panic") =>
            /\ i <= n
            /\ idx' = idx
            /\ \A k \in 1..Len(heap) : heap'[k].Calls = heap[k].Calls
            /\ \A k \in 1..Len(heap) :
                  \A j \in 1..Len(heap[k].Calls) : heap[k].Calls[j] # newNode
            /\ \/ /\ err' = ErrIndexReturns
                  /\ txReturns = <<>>
                  /\ Len(txReturns) + i < n + 1
                  /\ nodes' = nodes
                  /\ heap' = heap
               \/ /\ err' = ErrIndexNodes
                  /\ calls[idx].Depth <= heap[1].depth
                  /\ nodes = <<1>>
                  /\ nodes' = <<>>
                  /\ txReturns' = Tail(txReturns)
                  /\ SameResolution(heap'[1], Head(txReturns))]_vars
    /\ [](pc = "pop" =>
            Len(nodes) = heap[newNode - 1].depth - heap[1].depth + 1 - i)

C14_Witness ==
    /\ pc = "loop"
    /\ idx = 5
    /\ Depths(calls) = <<0, 1, 2, 1, 2>>
    /\ i = 2
    /\ n = 1
    /\ nodes = <<1, 4>>
    /\ heap[1].Calls = <<2, 4>>
    /\ Consumed = 2

\* C15: an event one level below the top appends the new node as last child of
\* the top and pushes it; nothing is popped, no ReturnEvent is consumed and no
\* existing node changes otherwise.
C15_NestedCallOnlyPushes ==
    [][NestedCase =>
        /\ nodes' = Append(nodes, Len(heap) + 1)
        /\ txReturns' = txReturns
        /\ Len(heap') = Len(heap) + 1
        /\ heap'[Top(nodes)].Calls = Append(heap[Top(nodes)].Calls, Len(heap) + 1)
        /\ \A k \in 1..Len(heap) :
              /\ SameResolution(heap'[k], heap[k])
              /\ k /= Top(nodes) => heap'[k] = heap[k]
        /\ pc' = "loop"
        /\ idx' = idx + 1]_vars

C15_Witness ==
    /\ pc = "loop"
    /\ idx = 4
    /\ nodes = <<1, 2, 3>>
    /\ heap[2].Calls = <<3>>
    /\ txReturns = entryReturns
    /\ Len(entryReturns) > 0

\* C16: the root of every returned tree has depth 0, so a trace whose first
\* CallEvent is not at depth 0 yields no tree.
C16_RootDepthZero ==
    pc = "done" => (heap[result].depth = 0 /\ calls[1].Depth = 0)

\* C17: every invocation halts, returning or panicking; the range loop visits
\* each CallEvent once, no more ReturnEvents are consumed by pops than nodes
\* were created, and on return the stack is empty.
C17_Halts ==
    /\ [](/\ idx <= Len(calls) + 1
          /\ Len(heap) <= Len(calls)
          /\ Len(heap) <= idx
          /\ Consumed <= Len(heap)
          /\ Len(nodes) <= Len(heap)
          /\ pc = "done" => (Len(nodes) = 0 /\ idx = Len(calls) + 1))
    /\ [][idx' = idx \/ idx' = idx + 1 \/ (pc = "done" /\ idx' = 1)]_vars
    /\ (pc = "loop") ~> (pc \in {"done", "panic"})

C17_Witness ==
    /\ pc = "done"
    /\ Len(calls) >= 4
    /\ Consumed = Len(heap)
    /\ Len(nodes) = 0
    /\ Len(txReturns) > 0

\* C18: between CallEvents the stack entry at position k has depth
\* root.depth + k - 1, every entry above the bottom is the last child of the
\* entry below it, the top is the node of the latest processed CallEvent, and
\* exactly the nodes on the stack have no ReturnEvent yet.
C18_StackInvariant ==
    (pc = "loop" /\ Len(nodes) > 0) =>
        /\ nodes[1] = 1
        /\ \A k \in 1..Len(nodes) :
              /\ heap[nodes[k]].depth = heap[nodes[1]].depth + k - 1
              /\ Unresolved(heap[nodes[k]])
        /\ \A k \in 2..Len(nodes) :
              /\ Len(heap[nodes[k - 1]].Calls) > 0
              /\ Top(heap[nodes[k - 1]].Calls) = nodes[k]
        /\ Top(nodes) = idx - 1
        /\ Top(nodes) = Len(heap)
        /\ \A id \in 1..Len(heap) :
              (\A k \in 1..Len(nodes) : nodes[k] /= id) => ~Unresolved(heap[id])

C18_Witness ==
    /\ pc = "loop"
    /\ idx <= Len(calls)
    /\ Len(nodes) = 3
    /\ heap[nodes[3]].depth = 2
    /\ \E id \in 1..Len(heap) : ~Unresolved(heap[id])

\* C19: once the first CallEvent is processed the stack holds the first node at
\* its bottom until the final drain; a trace with a later event at or above the
\* root's level never returns, so a returned tree has the first node as root
\* and reaches every node created.
C19_RootNeverReplaced ==
    /\ (pc \in {"loop", "pop"} /\ idx >= 2) =>
          (Len(nodes) >= 1 /\ nodes[1] = 1)
    /\ pc = "done" =>
          /\ result = 1
          /\ \A k \in 2..Len(calls) : calls[k].Depth > calls[1].Depth
          /\ LET pre == PreOrder(heap, result) IN
             /\ Len(pre) = Len(calls)
             /\ {pre[k] : k \in 1..Len(pre)} = 1..Len(calls)
    /\ (pc = "panic" /\ err = ErrIndexNodes /\ idx >= 2) =>
          /\ calls[idx].Depth <= calls[1].Depth
          /\ Len(nodes) = 0
          /\ result = NoNode

C19_Witness ==
    /\ pc = "panic"
    /\ err = ErrIndexNodes
    /\ Depths(calls) = <<0, 1, 0>>
    /\ idx = 3
    /\ Len(nodes) = 0
    /\ Consumed = 2

\* ------------------------------------------------------ GetStats, claims
\* C20: every Stats value a GetStats call has returned equals api.stats as it
\* stood when some updateStats run began or when one completed.
C20_ConsistentSnapshot ==
    \A t \in Callers : caller[t].returned \in snapshots

\* the positions inside updateStats
Updating ==
    {"readMemStats", "runtime", "memoryGet", "os", "loadNumCall",
     "storeNumEthCall"}

\* the CompareAndSwap calls made so far by callers that had loaded last
Contenders(last) == {e \in casLog : e.old = last}

\* caller t takes the step
Steps(t) == <<caller'[t].at, caller'[t].k>> /= <<caller[t].at, caller[t].k>>

\* C21: of the GetStats calls that loaded the same lastUpdateTime and found the
\* update due, exactly one wins the compare-and-swap and runs updateStats; a
\* loser leaves lastUpdateTime and stats alone and goes on to return api.stats.
C21_OneWinner ==
    /\ [](/\ \A e \in casLog :
                /\ UpdateDue(e.new, e.old)
                /\ Cardinality({f \in Contenders(e.old) : f.won}) = 1
          /\ \A t \in Callers :
                caller[t].at \in Updating => caller[t].swapped)
    /\ [][\A t \in Callers :
            (Steps(t) /\ caller[t].at = "cas") =>
                IF lastUpdateTime = caller[t].lastUpdateTime
                THEN /\ lastUpdateTime' = caller[t].now
                     /\ caller'[t].at = "readMemStats"
                ELSE /\ lastUpdateTime' = lastUpdateTime
                     /\ stats' = stats
                     /\ caller'[t].at = "copy"]_vars
    /\ [][\A t \in Callers :
            (caller'[t].at \in Updating /\ caller[t].at \notin Updating) =>
                (caller[t].at = "cas" /\ caller'[t].swapped)]_vars

C21_Witness ==
    \E e \in casLog, f \in casLog :
        /\ e.old = f.old
        /\ e.by /= f.by
        /\ e.won
        /\ ~f.won
        /\ caller[f.by].at = "idle"
        /\ caller[f.by].calls = f.call
        /\ caller[e.by].at \in Updating
        /\ lastUpdateTime = e.new

\* the call of caller t found now <= lastUpdateTime + StatusUpdateInterval
Throttled(t) ==
    \/ /\ caller[t].at = "load"
       /\ ~UpdateDue(caller[t].now, lastUpdateTime)
    \/ /\ caller[t].at \in {"copy", "copying"}
       /\ ~UpdateDue(caller[t].now, caller[t].lastUpdateTime)

\* C22: lastUpdateTime never decreases and every change raises it by more than
\* StatusUpdateInterval; a call that finds now <= lastUpdateTime + 60 changes
\* neither lastUpdateTime nor stats; on a fresh debugAPI the first call to
\* reach the compare-and-swap wins it, so nothing is returned before a refresh
\* has begun.
C22_Throttled ==
    /\ [][lastUpdateTime' >= lastUpdateTime]_vars
    /\ [][lastUpdateTime' /= lastUpdateTime =>
            lastUpdateTime' > lastUpdateTime + StatusUpdateInterval]_vars
    /\ [][\A t \in Callers :
            (Steps(t) /\ Throttled(t)) =>
                /\ lastUpdateTime' = lastUpdateTime
                /\ stats' = stats
                /\ caller'[t].at \in {"copy", "copying", "idle"}]_vars
    /\ [](\A t \in Callers :
            caller[t].at \in ({"cas"} \cup Updating) =>
                caller[t].now > caller[t].lastUpdateTime + StatusUpdateInterval)
    /\ [](lastUpdateTime = 0 =>
            /\ casLog = {}
            /\ stats = ZeroStats
            /\ \A t \in Callers :
                  \/ caller[t].at = "idle" /\ caller[t].calls = 0
                  \/ caller[t].at = "load"
                  \/ caller[t].at = "cas" /\ caller[t].lastUpdateTime = 0)
    /\ [](casLog /= {} => \E e \in casLog : e.old = 0 /\ e.won)

C22_Witness ==
    /\ Cardinality({e \in casLog : e.won}) = 1
    /\ \E t \in Callers :
          /\ caller[t].at = "copying"
          /\ ~caller[t].swapped
          /\ caller[t].now = caller[t].lastUpdateTime + StatusUpdateInterval
          /\ caller[t].lastUpdateTime = lastUpdateTime
          /\ lastUpdateTime >= StartTime
          /\ \A u \in Callers : u /= t => caller[u].at = "idle"
          /\ stats /= ZeroStats

\* the nine OsMem fields of Stats
OsFields == {OsFieldOrder[k] : k \in 1..Len(OsFieldOrder)}

\* the successful compare-and-swaps so far
Refreshes == {e \in casLog : e.won}

\* api.stats once a run of updateStats that read r from the runtime and c
\* from ethAPI.numCall has finished alone, the OsMem fields holding what a
\* memory.Get() returning o left in them
StatsOf(r, o, c) ==
    [f \in DOMAIN ZeroStats |->
        IF f = "NumEthCall" THEN c
        ELSE IF f \in OsFields
             THEN OsStat(CHOOSE k \in 1..Len(OsFieldOrder) :
                             OsFieldOrder[k] = f, o)
             ELSE RuntimeStat(CHOOSE k \in 1..Len(RuntimeFields) :
                                  RuntimeFields[k] = f, r)]

\* C23: an updateStats run assigns the four runtime fields one after the
\* other; when its memory.Get() fails it assigns none of the nine OsMem
\* fields and still assigns NumEthCall; lastUpdateTime was advanced before the
\* run began, and any other refresh lies more than StatusUpdateInterval away,
\* so the run is not retried within the interval.
C23_MemoryGetError ==
    /\ [][\A t \in Callers :
            (Steps(t) /\ caller[t].at = "runtime") =>
                LET k == caller[t].k IN
                /\ \E s \in Samples :
                      stats' = [stats EXCEPT ![RuntimeFields[k]] =
                                                RuntimeStat(k, s)]
                /\ IF k < 4
                   THEN caller'[t].at = "runtime" /\ caller'[t].k = k + 1
                   ELSE caller'[t].at = "memoryGet"]_vars
    /\ [][\A t \in Callers :
            (/\ Steps(t)
             /\ caller[t].at \in
                   {"memoryGet", "os", "loadNumCall", "storeNumEthCall"}
             /\ caller'[t].osErr) =>
                /\ \A f \in OsFields : stats'[f] = stats[f]
                /\ lastUpdateTime' = lastUpdateTime
                /\ caller'[t].at \in {"loadNumCall", "storeNumEthCall", "copy"}]_vars
    /\ [][\A t \in Callers :
            (Steps(t) /\ caller[t].at = "loadNumCall") =>
                /\ caller'[t].numCall = numCall
                /\ caller'[t].at = "storeNumEthCall"
                /\ stats' = stats]_vars
    /\ [][\A t \in Callers :
            (Steps(t) /\ caller[t].at = "storeNumEthCall") =>
                /\ stats' = [stats EXCEPT !.NumEthCall = caller[t].numCall]
                /\ caller'[t].at = "copy"]_vars
    /\ [](\A t \in Callers :
            (caller[t].swapped /\ caller[t].at /= "idle") =>
                /\ lastUpdateTime >= caller[t].now
                /\ \E e \in Refreshes : e.by = t /\ e.new = caller[t].now)
    /\ [](\A e \in Refreshes, f \in Refreshes :
            e.new > f.new => e.new > f.new + StatusUpdateInterval)
    /\ [](\A e \in Refreshes, f \in Refreshes : e.new = f.new => e = f)

C23_Witness ==
    /\ Cardinality(Refreshes) = 2
    /\ numCall = 1
    /\ \E t \in Callers :
          /\ caller[t].at = "copy"
          /\ caller[t].swapped
          /\ caller[t].osErr
          /\ lastUpdateTime = caller[t].now
          /\ \A u \in Callers :
                u /= t => (caller[u].at = "idle" /\ caller[u].calls = 1)
          /\ stats = StatsOf(1, 1, 1)

====
